---- MODULE Spec2Model ----
(***************************************************************************)
(* Model of src/main.rs of crypto_kline_tracker: N websocket connector     *)
(* tasks (run_websocket) feed one bounded mpsc channel, one aggregator     *)
(* task (process_kline_stream) keeps the latest KlineData per              *)
(* (symbol, interval) in kline_cache, renders the cache and logs the mean  *)
(* price change, and main spawns and joins the tasks.                      *)
(***************************************************************************)
EXTENDS Integers, Sequences, FiniteSets, TLC

\* ------------------------------------------------------------------ bounds
\* Messages the sessions deliver in all, after which only the end of a
\* stream or a transport error can follow.
MaxMsgs == 3
\* Capacity of the mpsc channel. main.rs:178 uses 100; the model scales it
\* down so that a full channel is reached.
Capacity == 2

\* ---------------------------------------------------------------- WatchSet
\* main.rs:172-173. The model watches a sub-grid of the configured one.
symbols == {"btcusdt", "ethusdt"}
intervals == {"1m"}

\* Iteration order of symbols.iter() / intervals.iter() (slice order).
symbolOrder == <<"btcusdt", "ethusdt">>
intervalOrder == <<"1m">>

Pairs == symbols \X intervals

\* An iteration that yields the first pair at every position.
PairAtFirst(n) == <<symbolOrder[1], intervalOrder[1]>>

\* The pairs in the order flat_map/map visits them: symbol-major.
PairAt(n) ==
    <<symbolOrder[((n - 1) \div Len(intervalOrder)) + 1],
      intervalOrder[((n - 1) % Len(intervalOrder)) + 1]>>

NumTasks == Len(symbolOrder) * Len(intervalOrder)

\* ------------------------------------------------------- serde_json::Value
\* A Value is a record [kind, num, str, obj]; obj maps the keys of an object
\* to Values and is the empty function for every other kind.
JNull == [kind |-> "Null", num |-> 0, str |-> "", obj |-> <<>>]
JNum(n) == [kind |-> "Number", num |-> n, str |-> "", obj |-> <<>>]
JStr(s) == [kind |-> "String", num |-> 0, str |-> s, obj |-> <<>>]
JObj(f) == [kind |-> "Object", num |-> 0, str |-> "", obj |-> f]
\* A JSON number written with a fraction or an exponent (held as f64).
JFloat(n) == [kind |-> "Float", num |-> n, str |-> "", obj |-> <<>>]

\* Value's Index<&str>: the member of an object, Null for a missing key or
\* for a value that is not an object (it never panics).
Index(v, key) ==
    IF v.kind = "Object" /\ key \in DOMAIN v.obj THEN v.obj[key] ELSE JNull

\* Option results: [some |-> BOOLEAN, val |-> ...].
None == [some |-> FALSE, val |-> 0]
Some(x) == [some |-> TRUE, val |-> x]

as_i64(v) == IF v.kind = "Number" THEN Some(v.num) ELSE None
as_str(v) == IF v.kind = "String" THEN Some(v.str) ELSE None
as_object(v) == IF v.kind = "Object" THEN Some(v.obj) ELSE None

\* Result values: [ok |-> BOOLEAN, val |-> ..., err |-> message].
Ok(x) == [ok |-> TRUE, val |-> x, err |-> ""]
Err(e) == [ok |-> FALSE, val |-> 0, err |-> e]

\* ------------------------------------------------------------ f64 parsing
\* str::parse::<f64> on the decimal strings the model feeds in. Prices are
\* kept as integers (the strings used have a zero fraction); every other
\* string is not a number.
parse_f64(s) ==
    CASE s = "100.00" -> Ok(100)
      [] s = "105.00" -> Ok(105)
      [] s = "110.00" -> Ok(110)
      [] s = "95.00" -> Ok(95)
      [] s = "-5.00" -> Ok(-5)
      [] OTHER -> Err("invalid float literal")

\* chrono's Utc.timestamp_millis_opt(ms).single(): None outside the range
\* of representable dates (about +/- 262000 years), else the instant.
\* Timestamps are counted in units of 10^10 ms to fit the checker's
\* integers: 1700000000000 ms is 170.
MaxTimestampMillis == 821026
timestamp_millis_opt_single(ms) ==
    IF ms >= -MaxTimestampMillis /\ ms <= MaxTimestampMillis THEN Some(ms) ELSE None

\* The timestamp parser of a variant that falls back to a substitute
\* instant when the field is invalid.
parse_timestamp_or_now(kline) ==
    LET timestamp == as_i64(Index(kline, "t")) IN
    IF ~timestamp.some THEN Ok(0)
    ELSE LET dt == timestamp_millis_opt_single(timestamp.val) IN
         IF dt.some THEN Ok(dt.val) ELSE Ok(0)

\* main.rs:46-53
parse_timestamp(kline) ==
    LET timestamp == as_i64(Index(kline, "t")) IN
    IF ~timestamp.some THEN Err("Invalid timestamp")
    ELSE LET dt == timestamp_millis_opt_single(timestamp.val) IN
         IF dt.some THEN Ok(dt.val) ELSE Err("Invalid timestamp")

\* main.rs:55-61
parse_price(kline, key) ==
    LET s == as_str(Index(kline, key)) IN
    IF ~s.some THEN Err("Invalid " \o key \o " price")
    ELSE LET p == parse_f64(s.val) IN
         IF p.ok THEN p ELSE Err("Failed to parse " \o key \o " price")

\* main.rs:63-69
parse_volume(kline) ==
    LET s == as_str(Index(kline, "v")) IN
    IF ~s.some THEN Err("Invalid volume")
    ELSE LET p == parse_f64(s.val) IN
         IF p.ok THEN p ELSE Err("Failed to parse volume")

\* main.rs:24-35. The fields are evaluated in the order written and the
\* first `?` that fails returns its error.
KlineData_new(symbol, interval, kline) ==
    LET ts == parse_timestamp(kline)
        o == parse_price(kline, "o")
        h == parse_price(kline, "h")
        l == parse_price(kline, "l")
        c == parse_price(kline, "c")
        v == parse_volume(kline)
    IN  IF ~ts.ok THEN Err(ts.err)
        ELSE IF ~o.ok THEN Err(o.err)
        ELSE IF ~h.ok THEN Err(h.err)
        ELSE IF ~l.ok THEN Err(l.err)
        ELSE IF ~c.ok THEN Err(c.err)
        ELSE IF ~v.ok THEN Err(v.err)
        ELSE Ok([symbol |-> symbol, interval |-> interval,
                 interval_start |-> ts.val, open |-> o.val, high |-> h.val,
                 low |-> l.val, close |-> c.val, volume |-> v.val])

\* main.rs:37-39
price_change(k) == k.close - k.open

\* main.rs:41-43. The opens the model uses divide the change exactly.
price_change_percent(k) == (price_change(k) * 100) \div k.open

\* --------------------------------------------------- tungstenite::Message
\* A payload is characterised by whether it is valid UTF-8 and by the JSON
\* document its text holds (kind "Invalid" when the text is not JSON; the
\* empty text is not JSON).
JInvalid == [kind |-> "Invalid", num |-> 0, str |-> "", obj |-> <<>>]
Payload(raw, utf8, json) == [raw |-> raw, utf8 |-> utf8, json |-> json]
Msg(type, data) == [type |-> type, data |-> data]

\* Message::to_text: Text is its string; Binary, Ping and Pong are their
\* bytes when these are UTF-8, else an error; Close is the frame's reason
\* ("" without a frame).
to_text(message) ==
    CASE message.type = "Text" -> Ok(message.data)
      [] message.type \in {"Binary", "Ping", "Pong"} ->
            IF message.data.utf8 THEN Ok(message.data) ELSE Err("utf8")
      [] message.type = "Close" -> Ok(message.data)

\* serde_json::from_str: the document the text holds, or a syntax error.
from_str(text) ==
    IF text.json.kind = "Invalid" THEN Err("serde_json syntax error")
    ELSE Ok(text.json)

\* The bar payloads of the feed: t integer millis, o h l c v decimal strings.
Kline(t, o, h, l, c, v) ==
    JObj([t |-> JNum(t), o |-> JStr(o), h |-> JStr(h), l |-> JStr(l),
          c |-> JStr(c), v |-> JStr(v)])
KlineJson(name, k) == Payload(name, TRUE, JObj([e |-> JStr("kline"), k |-> k]))

KlineA == Kline(170, "100.00", "110.00", "95.00", "105.00", "100.00")
KlineB == Kline(171, "100.00", "110.00", "95.00", "95.00", "105.00")
\* Malformed bar payloads: t missing, c not a number, v not a string.
KlineNoT ==
    JObj([o |-> JStr("100.00"), h |-> JStr("110.00"), l |-> JStr("95.00"),
          c |-> JStr("105.00"), v |-> JStr("100.00")])
KlineBadC == Kline(170, "100.00", "110.00", "95.00", "abc", "100.00")
KlineNumV ==
    JObj([t |-> JNum(170), o |-> JStr("100.00"), h |-> JStr("110.00"),
          l |-> JStr("95.00"), c |-> JStr("105.00"), v |-> JNum(100)])

EmptyText == Payload("", TRUE, JInvalid)
\* The messages a session can deliver.
KlineMessages ==
    {Msg("Text", KlineJson("A", KlineA)), Msg("Text", KlineJson("B", KlineB))}
BadKlineMessages ==
    {Msg("Text", KlineJson("noT", KlineNoT)),
     Msg("Text", KlineJson("badC", KlineBadC)),
     Msg("Text", KlineJson("numV", KlineNumV))}
NoKlineMessages ==
    {Msg("Text", Payload("{\"result\":null,\"id\":1}", TRUE,
                         JObj([result |-> JNull, id |-> JNum(1)]))),
     Msg("Text", Payload("{\"k\":1}", TRUE, JObj([k |-> JNum(1)]))),
     Msg("Ping", Payload("170", TRUE, JNum(170)))}
NoTextMessages == {Msg("Binary", Payload("\\xff", FALSE, JInvalid))}
NotJsonMessages ==
    {Msg("Text", Payload("pong", TRUE, JInvalid)), Msg("Ping", EmptyText)}
CloseMessages ==
    {Msg("Close", EmptyText), Msg("Close", Payload("1000", TRUE, JNum(1000)))}
Messages ==
    KlineMessages \cup BadKlineMessages \cup NoKlineMessages
        \cup NoTextMessages \cup NotJsonMessages \cup CloseMessages

NoMsg == Msg("None", EmptyText)

\* The loop body with a parse failure logged and skipped instead of `?`.
handle_message_tolerant(symbol, interval, message) ==
    LET text == to_text(message) IN
    IF ~text.ok THEN Ok(None)
    ELSE LET json == from_str(text.val) IN
         IF ~json.ok THEN Err(json.err)
         ELSE IF ~as_object(Index(json.val, "k")).some THEN Ok(None)
         ELSE LET kline_data == KlineData_new(symbol, interval, Index(json.val, "k")) IN
              IF ~kline_data.ok THEN Ok(None)
              ELSE Ok(Some(kline_data.val))

\* The loop body with a missing "k" object treated as an error.
handle_message_strict(symbol, interval, message) ==
    LET text == to_text(message) IN
    IF ~text.ok THEN Ok(None)
    ELSE LET json == from_str(text.val) IN
         IF ~json.ok THEN Err(json.err)
         ELSE IF ~as_object(Index(json.val, "k")).some THEN Err("no kline")
         ELSE LET kline_data == KlineData_new(symbol, interval, Index(json.val, "k")) IN
              IF ~kline_data.ok THEN Err(kline_data.err)
              ELSE Ok(Some(kline_data.val))

\* main.rs:88-96, the body of the receive loop for one message: Ok(None)
\* when nothing is sent, Ok(Some(bar)) when a bar is to be sent, Err when a
\* `?` returns.
handle_message(symbol, interval, message) ==
    LET text == to_text(message) IN
    IF ~text.ok THEN Ok(None)
    ELSE LET json == from_str(text.val) IN
         IF ~json.ok THEN Err(json.err)
         ELSE IF ~as_object(Index(json.val, "k")).some THEN Ok(None)
         ELSE LET kline_data == KlineData_new(symbol, interval, Index(json.val, "k")) IN
              IF ~kline_data.ok THEN Err(kline_data.err)
              ELSE Ok(Some(kline_data.val))

\* The task body as `let _ = run_websocket(..).await;`: nothing is logged.
report_nothing(symbol, interval, result) == {}

\* main.rs:135-139, the task body around run_websocket: what error! logs.
report(symbol, interval, result) ==
    IF ~result.ok
    THEN {[symbol |-> symbol, interval |-> interval, e |-> result.err]}
    ELSE {}

\* Joining a task as if it returned run_websocket's result to main's `?`.
task_join_result_propagated(c) == c.result

\* main.rs:135-139 and 183-185: the task's output is (), so joining it
\* yields Ok whatever run_websocket returned (no task panics).
task_join_result(c) == "Ok"

\* ------------------------------------------------------------------- state
VARIABLES
    mainPc,       \* main: "spawn", "spawn_processor", "join", "join_processor", "done"
    mainResult,   \* what main returned: "none", "Ok", "Err"
    spawnIdx,     \* tasks spawn_websocket_tasks has spawned so far
    joinIdx,      \* the task main awaits next (main.rs:183)
    fnTx,         \* spawn_websocket_tasks' tx parameter is alive
    symTx,        \* the per-symbol clone (main.rs:130) is alive
    conn,         \* per pair: the connector task
    nmsgs,        \* messages the sessions have delivered so far
    chan,         \* the Bars queued in the mpsc channel
    rxAlive,      \* the Receiver has not been dropped
    aggPc,        \* process_kline_stream: "unspawned", "recv", "render", "mean", "done"
    kline_cache,  \* HashMap<(String, String), KlineData>
    upd,          \* the update in progress: its Bar and what it has emitted
    errorLog,     \* the error! lines of main.rs:137
    warnLog,      \* the warn! lines of main.rs:98
    sent,         \* history: per pair, the Bars the channel accepted, in order
    received,     \* history: per pair, Bars the aggregator inserted
    parser        \* a call of KlineData::new on its own: payload and result

vars ==
    <<mainPc, mainResult, spawnIdx, joinIdx, fnTx, symTx, conn, nmsgs, chan,
      rxAlive, aggPc, kline_cache, upd, errorLog, warnLog, sent, received,
      parser>>

NoBar ==
    [symbol |-> "", interval |-> "", interval_start |-> 0, open |-> 0,
     high |-> 0, low |-> 0, close |-> 0, volume |-> 0]

\* A connector task. pc: "unspawned", "connecting", "reading", "sending"
\* (suspended in tx.send with `pending`), "done". tx: it owns a Sender.
\* result: what run_websocket returned. The rest is history: how many
\* tasks were spawned for the pair, how many messages the task has read,
\* the last one, and what ended the loop.
\* No call of KlineData::new is under study.
NoCall == [pc |-> "none", pair |-> <<"", "">>, fields |-> <<>>, result |-> Err("")]

NewConn ==
    [pc |-> "unspawned", spawns |-> 0, tx |-> FALSE, got |-> 0, pending |-> NoBar,
     result |-> "none", lastMsg |-> NoMsg, ended |-> "none"]

\* lines: rendered lines per key; seen: the Bar each line was rendered
\* from; todo: entries not yet rendered; gone: the other cached pairs
\* whose connector had ended when the Bar was received (history).
NoUpdate ==
    [bar |-> NoBar, lines |-> <<>>, seen |-> <<>>, todo |-> {}, means |-> 0,
     avg |-> <<0, 0>>, gone |-> {}]

Init ==
    /\ mainPc = "spawn"
    /\ mainResult = "none"
    /\ spawnIdx = 0
    /\ joinIdx = 1
    /\ fnTx = TRUE
    /\ symTx = FALSE
    /\ conn = [p \in Pairs |-> NewConn]
    /\ nmsgs = 0
    /\ chan = <<>>
    /\ rxAlive = TRUE
    /\ aggPc = "unspawned"
    /\ kline_cache = <<>>
    /\ upd = NoUpdate
    /\ errorLog = {}
    /\ warnLog = {}
    /\ sent = [p \in Pairs |-> [n |-> 0, last |-> NoBar, prev |-> NoBar, all |-> <<>>]]
    /\ received = [p \in Pairs |-> 0]
    /\ parser = NoCall

\* The Sender handles counted as if only those main and
\* spawn_websocket_tasks hold kept the channel open.
SendersOfMain == (IF fnTx THEN 1 ELSE 0) + (IF symTx THEN 1 ELSE 0)

\* Sender handles alive: the channel is closed for the receiver when none is.
Senders ==
    (IF fnTx THEN 1 ELSE 0) + (IF symTx THEN 1 ELSE 0)
        + Cardinality({p \in Pairs : conn[p].tx})

\* ------------------------------------------------------------------- main
\* main.rs:127-142: one step of collect(): flat_map takes the next symbol
\* when the inner iterator is exhausted (dropping the previous per-symbol
\* clone, cloning tx for the new one), the inner closure clones tx for the
\* pair and spawns its task.
SpawnTask ==
    /\ mainPc = "spawn"
    /\ spawnIdx < NumTasks
    /\ LET p == PairAt(spawnIdx + 1) IN
       conn' = [conn EXCEPT ![p] = [@ EXCEPT !.pc = "connecting", !.tx = TRUE,
                                         !.spawns = @ + 1]]
    /\ symTx' = TRUE
    /\ spawnIdx' = spawnIdx + 1
    /\ UNCHANGED <<parser, nmsgs, mainPc, mainResult, joinIdx, fnTx, chan, rxAlive, aggPc,
                   kline_cache, upd, errorLog, warnLog, sent, received>>

\* spawn_websocket_tasks as if it borrowed tx and main kept it.
HandlesAfterReturnBorrowed == [fnTx |-> TRUE, symTx |-> FALSE]

\* main.rs:122-143: the Sender handles spawn_websocket_tasks still holds
\* when it has returned: the iterator (with the last per-symbol clone) and
\* the tx parameter, which it took by value, are dropped.
HandlesAfterReturn == [fnTx |-> FALSE, symTx |-> FALSE]

\* main.rs:142-143, 180: collect() ends and spawn_websocket_tasks returns.
SpawnReturn ==
    /\ mainPc = "spawn"
    /\ spawnIdx = NumTasks
    /\ fnTx' = HandlesAfterReturn.fnTx
    /\ symTx' = HandlesAfterReturn.symTx
    /\ mainPc' = "spawn_processor"
    /\ UNCHANGED <<parser, nmsgs, mainResult, spawnIdx, joinIdx, conn, chan, rxAlive, aggPc,
                   kline_cache, upd, errorLog, warnLog, sent, received>>

\* main.rs:181
SpawnProcessor ==
    /\ mainPc = "spawn_processor"
    /\ aggPc' = "recv"
    /\ mainPc' = "join"
    /\ UNCHANGED <<parser, nmsgs, mainResult, spawnIdx, joinIdx, fnTx, symTx, conn, chan,
                   rxAlive, kline_cache, upd, errorLog, warnLog, sent, received>>

\* main.rs:183-185: await the next task; `?` returns the join error.
JoinTask ==
    /\ mainPc = "join"
    /\ joinIdx <= NumTasks
    /\ conn[PairAt(joinIdx)].pc = "done"
    /\ IF task_join_result(conn[PairAt(joinIdx)]) = "Ok"
       THEN /\ joinIdx' = joinIdx + 1
            /\ mainPc' = IF joinIdx = NumTasks THEN "join_processor" ELSE "join"
            /\ UNCHANGED mainResult
       ELSE /\ mainPc' = "done"
            /\ mainResult' = "Err"
            /\ UNCHANGED joinIdx
    /\ UNCHANGED <<parser, nmsgs, spawnIdx, fnTx, symTx, conn, chan, rxAlive, aggPc,
                   kline_cache, upd, errorLog, warnLog, sent, received>>

\* main.rs:187-190
JoinProcessor ==
    /\ mainPc = "join_processor"
    /\ aggPc = "done"
    /\ mainPc' = "done"
    /\ mainResult' = "Ok"
    /\ UNCHANGED <<parser, nmsgs, spawnIdx, joinIdx, fnTx, symTx, conn, chan, rxAlive, aggPc,
                   kline_cache, upd, errorLog, warnLog, sent, received>>

\* #[tokio::main], main.rs:168: when main returns the runtime is dropped
\* and every task still alive is cancelled; tasks run only until then.
Running == mainPc # "done"

\* -------------------------------------------------------------- connectors
\* run_websocket returns `result` and the task ends: its Sender is dropped
\* and the task body logs an error result (main.rs:136-138).
Returned(c, result, why) ==
    [c EXCEPT !.pc = "done", !.tx = FALSE, !.pending = NoBar,
              !.result = IF result.ok THEN "Ok" ELSE "Err", !.ended = why]

\* A send that does not wait (try_send): on a full channel the Bar is
\* dropped and the connector reads on.
SendDropping(p, c, bar) ==
    IF ~rxAlive
    THEN /\ conn' = [conn EXCEPT ![p] = Returned(c, Err("channel closed"), "send_error")]
         /\ errorLog' = errorLog \cup report(p[1], p[2], Err("channel closed"))
         /\ UNCHANGED <<chan, sent>>
    ELSE IF Len(chan) < Capacity
    THEN /\ conn' = [conn EXCEPT ![p] = [c EXCEPT !.pc = "reading", !.pending = NoBar]]
         /\ chan' = Append(chan, bar)
         /\ sent' = [sent EXCEPT ![p] = [n |-> @.n + 1, last |-> bar, prev |-> @.last,
                                       all |-> Append(@.all, bar)]]
         /\ UNCHANGED errorLog
    ELSE /\ conn' = [conn EXCEPT ![p] = [c EXCEPT !.pc = "reading", !.pending = NoBar]]
         /\ UNCHANGED <<chan, sent, errorLog>>

\* A send into a channel that hands out the newest value first.
SendFront(p, c, bar) ==
    IF ~rxAlive
    THEN /\ conn' = [conn EXCEPT ![p] = Returned(c, Err("channel closed"), "send_error")]
         /\ errorLog' = errorLog \cup report(p[1], p[2], Err("channel closed"))
         /\ UNCHANGED <<chan, sent>>
    ELSE IF Len(chan) < Capacity
    THEN /\ conn' = [conn EXCEPT ![p] = [c EXCEPT !.pc = "reading", !.pending = NoBar]]
         /\ chan' = <<bar>> \o chan
         /\ sent' = [sent EXCEPT ![p] = [n |-> @.n + 1, last |-> bar, prev |-> @.last,
                                       all |-> Append(@.all, bar)]]
         /\ UNCHANGED errorLog
    ELSE /\ conn' = [conn EXCEPT ![p] = [c EXCEPT !.pc = "sending", !.pending = bar]]
         /\ UNCHANGED <<chan, sent, errorLog>>

\* main.rs:93, tx.send(kline_data).await? for connector p in state c: an
\* error when the receiver is gone, the Bar queued when the channel has
\* room, else the task stays suspended in send.
Send(p, c, bar) ==
    IF ~rxAlive
    THEN /\ conn' = [conn EXCEPT ![p] = Returned(c, Err("channel closed"), "send_error")]
         /\ errorLog' = errorLog \cup report(p[1], p[2], Err("channel closed"))
         /\ UNCHANGED <<chan, sent>>
    ELSE IF Len(chan) < Capacity
    THEN /\ conn' = [conn EXCEPT ![p] = [c EXCEPT !.pc = "reading", !.pending = NoBar]]
         /\ chan' = Append(chan, bar)
         /\ sent' = [sent EXCEPT ![p] = [n |-> @.n + 1, last |-> bar, prev |-> @.last,
                                       all |-> Append(@.all, bar)]]
         /\ UNCHANGED errorLog
    ELSE /\ conn' = [conn EXCEPT ![p] = [c EXCEPT !.pc = "sending", !.pending = bar]]
         /\ UNCHANGED <<chan, sent, errorLog>>

\* main.rs:82-83: connect_async succeeds.
ConnectOk(p) ==
    /\ Running
    /\ conn[p].pc = "connecting"
    /\ conn' = [conn EXCEPT ![p].pc = "reading"]
    /\ UNCHANGED <<parser, nmsgs, mainPc, mainResult, spawnIdx, joinIdx, fnTx, symTx, chan,
                   rxAlive, aggPc, kline_cache, upd, errorLog, warnLog, sent,
                   received>>

\* main.rs:82: connect_async fails and `?` returns the error.
ConnectFail(p) ==
    /\ Running
    /\ conn[p].pc = "connecting"
    /\ conn' = [conn EXCEPT ![p] = Returned(@, Err("connect"), "connect_error")]
    /\ errorLog' = errorLog \cup report(p[1], p[2], Err("connect"))
    /\ UNCHANGED <<parser, nmsgs, mainPc, mainResult, spawnIdx, joinIdx, fnTx, symTx, chan,
                   rxAlive, aggPc, kline_cache, upd, warnLog, sent, received>>

\* main.rs:87-96: read.next() yields Some(Ok(message)). After a Close
\* message the stream yields no further message.
Receive(p, message) ==
    /\ Running
    /\ conn[p].pc = "reading"
    /\ nmsgs < MaxMsgs
    /\ conn[p].lastMsg.type # "Close"
    /\ nmsgs' = nmsgs + 1
    /\ LET c == [conn[p] EXCEPT !.got = @ + 1, !.lastMsg = message]
           r == handle_message(p[1], p[2], message)
       IN  IF ~r.ok
           THEN /\ conn' = [conn EXCEPT ![p] = Returned(c, r, "message_error")]
                /\ errorLog' = errorLog \cup report(p[1], p[2], r)
                /\ UNCHANGED <<chan, sent>>
           ELSE IF ~r.val.some
           THEN /\ conn' = [conn EXCEPT ![p] = c]
                /\ UNCHANGED <<chan, sent, errorLog>>
           ELSE Send(p, c, r.val.val)
    /\ UNCHANGED <<parser, mainPc, mainResult, spawnIdx, joinIdx, fnTx, symTx, rxAlive,
                   aggPc, kline_cache, upd, warnLog, received>>

\* main.rs:93: a send suspended on a full channel completes or fails.
SendBlocked(p) ==
    /\ Running
    /\ conn[p].pc = "sending"
    /\ ~rxAlive \/ Len(chan) < Capacity
    /\ Send(p, conn[p], conn[p].pending)
    /\ UNCHANGED <<parser, nmsgs, mainPc, mainResult, spawnIdx, joinIdx, fnTx, symTx, rxAlive,
                   aggPc, kline_cache, upd, warnLog, received>>

\* main.rs:87, 98-99: read.next() yields None (the stream has ended): the
\* loop ends, warn! is logged and run_websocket returns Ok(()).
StreamEnd(p) ==
    /\ Running
    /\ conn[p].pc = "reading"
    /\ conn' = [conn EXCEPT ![p] = Returned(@, Ok(0), "stream_end")]
    /\ warnLog' = warnLog \cup {p}
    /\ UNCHANGED <<parser, nmsgs, mainPc, mainResult, spawnIdx, joinIdx, fnTx, symTx, chan,
                   rxAlive, aggPc, kline_cache, upd, errorLog, sent, received>>

\* main.rs:87, 98-99: read.next() yields Some(Err(e)) (a transport error):
\* the pattern Some(Ok(message)) does not match, so the loop ends the same
\* way.
TransportError(p) ==
    /\ Running
    /\ conn[p].pc = "reading"
    /\ conn' = [conn EXCEPT ![p] = Returned(@, Ok(0), "transport_error")]
    /\ warnLog' = warnLog \cup {p}
    /\ UNCHANGED <<parser, nmsgs, mainPc, mainResult, spawnIdx, joinIdx, fnTx, symTx, chan,
                   rxAlive, aggPc, kline_cache, upd, errorLog, sent, received>>

\* The cache key with its components the other way round.
KeySwapped(kline_data) == <<kline_data.interval, kline_data.symbol>>

\* -------------------------------------------------------------- aggregator
Key(bar) == <<bar.symbol, bar.interval>>

\* The insert left out (or done after the analytics): the cache is as before.
InsertDeferred(cache, key, bar) == cache

\* An insert that forgets every other entry.
InsertAlone(cache, key, bar) == [k \in {key} |-> bar]

\* Insert as entry(key).or_insert(bar) would do it: an existing entry stays.
InsertIfAbsent(cache, key, bar) ==
    [k \in DOMAIN cache \cup {key} |-> IF k \in DOMAIN cache THEN cache[k] ELSE bar]

\* main.rs:149-152, HashMap::insert: the entry of the key is replaced.
Insert(cache, key, bar) ==
    [k \in DOMAIN cache \cup {key} |-> IF k = key THEN bar ELSE cache[k]]

\* Rendering only the entry that was just updated.
RenderedUpdatedOnly(cache, key) == {key}

\* main.rs:154-156: the entries par_iter().for_each renders.
Rendered(cache, key) == DOMAIN cache

RECURSIVE SumPercent(_, _)
SumPercent(cache, keys) ==
    IF keys = {} THEN 0
    ELSE LET k == CHOOSE x \in keys : TRUE IN
         price_change_percent(cache[k]) + SumPercent(cache, keys \ {k})

\* The mean as if it were taken over the configured pairs.
AverageOverWatchSet(cache) == <<SumPercent(cache, DOMAIN cache), NumTasks>>

\* main.rs:158-162: the sum over values() and the length it is divided by.
Average(cache) == <<SumPercent(cache, DOMAIN cache), Cardinality(DOMAIN cache)>>

\* The loop as if the rendering were handed to detached workers: recv() is
\* called again while entries are still being rendered.
RecvReadyEarly == aggPc \in {"recv", "render"}

\* main.rs:148-165: recv() is called when the loop body has run to its
\* end: for_each has returned and the mean has been logged.
RecvReady == aggPc = "recv"

\* main.rs:148-152: recv() yields a Bar, which is inserted.
Recv ==
    /\ Running
    /\ RecvReady
    /\ chan # <<>>
    /\ LET kline_data == Head(chan) IN
       /\ kline_cache' = Insert(kline_cache, Key(kline_data), kline_data)
       /\ upd' = [bar |-> kline_data,
                  lines |-> [k \in Rendered(kline_cache', Key(kline_data)) |-> 0],
                  seen |-> <<>>,
                  todo |-> Rendered(kline_cache', Key(kline_data)),
                  means |-> 0, avg |-> upd.avg,
                  gone |-> {p \in DOMAIN kline_cache \ {Key(kline_data)} :
                                conn[p].pc = "done"}]
       /\ received' = [received EXCEPT ![Key(kline_data)] = @ + 1]
    /\ chan' = Tail(chan)
    /\ aggPc' = "render"
    /\ UNCHANGED <<parser, nmsgs, mainPc, mainResult, spawnIdx, joinIdx, fnTx, symTx, conn,
                   rxAlive, errorLog, warnLog, sent>>

\* main.rs:154-156, 102-120: one rayon worker renders one entry.
Render(k) ==
    /\ Running
    /\ aggPc = "render"
    /\ k \in upd.todo
    /\ upd' = [upd EXCEPT !.lines[k] = @ + 1, !.todo = @ \ {k},
                           !.seen = [j \in DOMAIN @ \cup {k} |->
                                        IF j = k THEN kline_cache[k] ELSE @[j]]]
    /\ aggPc' = IF upd'.todo = {} THEN "mean" ELSE "render"
    /\ UNCHANGED <<parser, nmsgs, mainPc, mainResult, spawnIdx, joinIdx, fnTx, symTx, conn,
                   chan, rxAlive, kline_cache, errorLog, warnLog, sent, received>>

\* main.rs:158-164
Mean ==
    /\ Running
    /\ aggPc = "mean"
    /\ upd' = [upd EXCEPT !.means = @ + 1, !.avg = Average(kline_cache)]
    /\ aggPc' = "recv"
    /\ UNCHANGED <<parser, nmsgs, mainPc, mainResult, spawnIdx, joinIdx, fnTx, symTx, conn,
                   chan, rxAlive, kline_cache, errorLog, warnLog, sent, received>>

\* recv as try_recv would end the loop: on an empty queue.
ChannelEmpty == chan = <<>>

\* mpsc::Receiver::recv yields None: the queue is empty and every Sender
\* has been dropped.
ChannelClosed == chan = <<>> /\ Senders = 0

\* main.rs:148, 166: recv() yields None, the loop ends and rx is dropped.
RecvNone ==
    /\ Running
    /\ RecvReady
    /\ ChannelClosed
    /\ aggPc' = "done"
    /\ rxAlive' = FALSE
    /\ UNCHANGED <<parser, nmsgs, mainPc, mainResult, spawnIdx, joinIdx, fnTx, symTx, conn,
                   chan, kline_cache, upd, errorLog, warnLog, sent, received>>

\* ---------------------------------------------------------- specification
MainStep == SpawnTask \/ SpawnReturn \/ SpawnProcessor \/ JoinTask \/ JoinProcessor

ConnectorStep(p) ==
    \/ ConnectOk(p)
    \/ ConnectFail(p)
    \/ \E message \in Messages : Receive(p, message)
    \/ SendBlocked(p)
    \/ StreamEnd(p)
    \/ TransportError(p)

AggregatorStep == Recv \/ (\E k \in Pairs : Render(k)) \/ Mean \/ RecvNone

Next == MainStep \/ (\E p \in Pairs : ConnectorStep(p)) \/ AggregatorStep

Spec == Init /\ [][Next]_vars

\* The tokio scheduler runs every task that is ready: main and the
\* aggregator make progress whenever they can, and a send suspended on a
\* full channel completes once there is room. What the remote end delivers
\* (and whether a connector ever ends) is left open.
FairSpec ==
    /\ Spec
    /\ WF_vars(MainStep)
    /\ WF_vars(AggregatorStep)
    /\ \A p \in Pairs : SF_vars(SendBlocked(p))

----------------------------------------------------------------------------
\* KlineData::new on its own: one call on a payload put together from one
\* input per field.

\* An input for a field: the JSON value under the key (or no such key),
\* whether the field is valid, and the value a valid field stands for.
FieldInput(present, json, valid, value) ==
    [present |-> present, json |-> json, valid |-> valid, value |-> value]

\* Inputs for "t": an integer in range, an integer out of chrono's range, a
\* string, a number held as f64, and no "t" at all.
TimestampInputs ==
    { FieldInput(TRUE, JNum(170), TRUE, 170),
      FieldInput(TRUE, JNum(MaxTimestampMillis + 1), FALSE, 0),
      FieldInput(TRUE, JStr("170"), FALSE, 0),
      FieldInput(TRUE, JFloat(170), FALSE, 0),
      FieldInput(FALSE, JNull, FALSE, 0) }

\* Inputs for "o", "h", "l", "c", "v": two decimal strings (f64's FromStr
\* takes a sign), a string that is no number, a JSON number, and no key.
DecimalInputs ==
    { FieldInput(TRUE, JStr("100.00"), TRUE, 100),
      FieldInput(TRUE, JStr("-5.00"), TRUE, -5),
      FieldInput(TRUE, JStr("abc"), FALSE, 0),
      FieldInput(TRUE, JNum(100), FALSE, 0),
      FieldInput(FALSE, JNull, FALSE, 0) }

\* The keys of a bar payload, in the order KlineData::new reads them.
FieldNames == <<"t", "o", "h", "l", "c", "v">>

\* The JSON object with the inputs that are present under their keys.
PayloadOf(fields) ==
    LET present == {i \in DOMAIN FieldNames : fields[i].present} IN
    JObj([k \in {FieldNames[i] : i \in present} |->
            fields[CHOOSE i \in present : FieldNames[i] = k].json])

ParserInit ==
    /\ mainPc = "spawn"
    /\ mainResult = "none"
    /\ spawnIdx = 0
    /\ joinIdx = 1
    /\ fnTx = TRUE
    /\ symTx = FALSE
    /\ conn = [p \in Pairs |-> NewConn]
    /\ nmsgs = 0
    /\ chan = <<>>
    /\ rxAlive = TRUE
    /\ aggPc = "unspawned"
    /\ kline_cache = <<>>
    /\ upd = NoUpdate
    /\ errorLog = {}
    /\ warnLog = {}
    /\ sent = [p \in Pairs |-> [n |-> 0, last |-> NoBar, prev |-> NoBar, all |-> <<>>]]
    /\ received = [p \in Pairs |-> 0]
    /\ \E pair \in Pairs, t \in TimestampInputs :
       \E o, h, l, c, v \in DecimalInputs :
          parser = [pc |-> "call", pair |-> pair, fields |-> <<t, o, h, l, c, v>>,
                    result |-> Err("")]

\* main.rs:24-35: the call returns.
ParserCall ==
    /\ parser.pc = "call"
    /\ parser' = [parser EXCEPT
                    !.pc = "returned",
                    !.result = KlineData_new(parser.pair[1], parser.pair[2],
                                             PayloadOf(parser.fields))]
    /\ UNCHANGED <<mainPc, mainResult, spawnIdx, joinIdx, fnTx, symTx, conn, nmsgs,
                   chan, rxAlive, aggPc, kline_cache, upd, errorLog, warnLog, sent,
                   received>>

ParserNext == ParserCall

ParserSpec == ParserInit /\ [][ParserNext]_vars


\* ================================================================== claims
\* What a message holds, read off the message itself.
HasText(m) == m # NoMsg /\ to_text(m).ok
IsJson(m) == HasText(m) /\ from_str(to_text(m).val).ok
HasBarPayload(m) ==
    IsJson(m) /\ as_object(Index(from_str(to_text(m).val).val, "k")).some
BarPayload(m) == Index(from_str(to_text(m).val).val, "k")
ParseFails(p, m) ==
    HasBarPayload(m) /\ ~KlineData_new(p[1], p[2], BarPayload(m)).ok
Tagged(p) == {e \in errorLog : e.symbol = p[1] /\ e.interval = p[2]}
Failed(p) ==
    /\ conn[p].pc = "done"
    /\ conn[p].ended \in {"connect_error", "message_error", "transport_error"}
AllDone == \A p \in Pairs : conn[p].pc = "done"

\* C1: last-write-wins per key: once the aggregator has received every Bar
\* the connector of a key has sent, the cache entry of the key is the last
\* Bar sent, whatever Bars of other keys were interleaved.
C1_LastWriteWins ==
    \A p \in Pairs :
        (sent[p].n > 0 /\ received[p] = sent[p].n)
            => (p \in DOMAIN kline_cache /\ kline_cache[p] = sent[p].last)

\* C1 witness: a key got two Bars with different closes, another key got a
\* Bar too, all were received, and the cache holds the later one.
C1_Witness ==
    \E p, q \in Pairs :
        /\ p # q
        /\ sent[p].n = 2
        /\ sent[p].prev.close # sent[p].last.close
        /\ received[p] = 2
        /\ received[q] >= 1
        /\ kline_cache[p] = sent[p].last

\* C2: the failure of one connector changes no other connector and never
\* leads to the runtime being shut down while a task is alive, and every
\* Bar another connector has sent while a connector has failed is
\* eventually received and inserted by the aggregator.
C2_IndependentFailure ==
    /\ [][\A p \in Pairs :
            (conn[p].pc # "done" /\ conn'[p].pc = "done"
                /\ conn'[p].ended \in {"connect_error", "message_error", "transport_error"})
              => /\ \A q \in Pairs \ {p} : conn'[q] = conn[q]
                 /\ aggPc' = aggPc /\ rxAlive' = rxAlive /\ mainPc' = mainPc]_vars
    /\ []((\E p \in Pairs : Failed(p))
            => (Running \/ (AllDone /\ aggPc = "done")))
    /\ \A q \in Pairs : \A n \in 1..MaxMsgs :
          ((\E p \in Pairs \ {q} : Failed(p)) /\ sent[q].n >= n)
              ~> (received[q] >= n /\ q \in DOMAIN kline_cache)

\* C2 witness: one connector has failed and, after that, the Bar of another
\* connector that is still running has been received and inserted.
C2_Witness ==
    \E p, q \in Pairs :
        /\ p # q
        /\ Failed(p) /\ conn[p].result = "Err"
        /\ conn[q].pc = "reading"
        /\ sent[q].n >= 1 /\ received[q] = sent[q].n
        /\ kline_cache[q] = sent[q].last

\* C3: process_kline_stream has returned only if no connector task is
\* running or holds a Sender, the channel is empty, and every Bar the
\* channel accepted was received and inserted exactly once.
C3_ReturnsOnlyWhenClosed ==
    aggPc = "done" =>
        /\ \A p \in Pairs : conn[p].pc = "done" /\ ~conn[p].tx
        /\ Senders = 0
        /\ chan = <<>>
        /\ \A p \in Pairs : received[p] = sent[p].n

\* C3 witness: the aggregator has returned after inserting Bars of two keys.
C3_Witness ==
    /\ aggPc = "done"
    /\ \A p \in Pairs : received[p] >= 1
    /\ \E p \in Pairs : received[p] >= 2

\* C4: once every connector task has terminated, the aggregator exits and
\* main returns Ok; main never returns an error; after
\* spawn_websocket_tasks has returned only connector tasks hold Senders.
C4_GracefulEnd ==
    /\ AllDone ~> (aggPc = "done" /\ mainPc = "done" /\ mainResult = "Ok")
    /\ [](mainPc # "spawn" => (~fnTx /\ ~symTx))
    /\ [](mainResult # "Err")
    /\ [](\A p \in Pairs : conn[p].tx => conn[p].pc \in {"connecting", "reading", "sending"})

\* C4 witness: every connector has failed with an error and main has
\* returned Ok after the aggregator exited.
C4_Witness ==
    /\ \A p \in Pairs : conn[p].result = "Err"
    /\ aggPc = "done"
    /\ mainPc = "done"
    /\ mainResult = "Ok"

\* A step in which connector p reads a message (conn'[p].lastMsg).
Read(p) == conn'[p].got = conn[p].got + 1

\* C5: a message whose bar payload fails to parse ends the connector's
\* loop with an error, queues no Bar, and is logged with the connector's
\* (symbol, interval); so is a failed send.
C5_ParseFailureReported ==
    /\ [][\A p \in Pairs :
            (Read(p) /\ ParseFails(p, conn'[p].lastMsg))
              => /\ conn'[p].pc = "done" /\ conn'[p].result = "Err"
                 /\ chan' = chan /\ sent' = sent
                 /\ \E e \in errorLog' \ errorLog :
                        e.symbol = p[1] /\ e.interval = p[2]]_vars
    /\ [](\A p \in Pairs :
            (conn[p].pc = "done" /\ conn[p].ended = "send_error")
              => (conn[p].result = "Err" /\ Tagged(p) # {}))
    /\ [](\A p \in Pairs :
            (conn[p].pc # "unspawned" /\ ParseFails(p, conn[p].lastMsg))
              => /\ conn[p].pc = "done" /\ conn[p].result = "Err"
                 /\ \E e \in Tagged(p) :
                      e.e = KlineData_new(p[1], p[2], BarPayload(conn[p].lastMsg)).err)

\* C5 witness: a connector that had sent a Bar read a payload that fails
\* to parse, and has ended with a tagged error.
C5_Witness ==
    \E p \in Pairs :
        /\ ParseFails(p, conn[p].lastMsg)
        /\ sent[p].n = 1
        /\ conn[p].pc = "done"
        /\ Tagged(p) # {}

\* C6 as claimed: after a message whose bar payload fails to parse the
\* connector is still running and can still send.
C6_Claimed ==
    \A p \in Pairs :
        (conn[p].pc # "unspawned" /\ ParseFails(p, conn[p].lastMsg))
            => (conn[p].pc \in {"reading", "sending"} /\ conn[p].tx)

\* C6 as amended: a message whose bar payload fails to parse ends the
\* connector's session: the task has ended with an error, holds no Sender,
\* and reads and sends nothing afterwards.
C6_ParseFailureEndsSession ==
    /\ [](\A p \in Pairs :
            (conn[p].pc # "unspawned" /\ ParseFails(p, conn[p].lastMsg))
              => (conn[p].pc = "done" /\ ~conn[p].tx /\ conn[p].ended = "message_error"))
    /\ [][\A p \in Pairs :
            conn[p].pc = "done" => (conn'[p] = conn[p] /\ sent'[p] = sent[p])]_vars

\* C6 witness: a connector ended by a parse failure while its sibling, which
\* read a message afterwards, is still running.
C6_Witness ==
    \E p, q \in Pairs :
        /\ p # q
        /\ ParseFails(p, conn[p].lastMsg)
        /\ conn[p].pc = "done"
        /\ conn[q].pc = "reading"
        /\ sent[q].n >= 1

\* C7 as claimed: a transport error, while connecting or while reading,
\* ends the connector with an error result that is logged with its
\* (symbol, interval).
C7_Claimed ==
    \A p \in Pairs :
        (conn[p].pc = "done" /\ conn[p].ended \in {"connect_error", "transport_error"})
            => (conn[p].result = "Err" /\ Tagged(p) # {})

\* C8 as claimed: when the remote end closes the session (the stream ends,
\* or a Close message was delivered), run_websocket returns Ok and no error
\* is logged for the pair.
C8_Claimed ==
    \A p \in Pairs :
        (conn[p].pc = "done"
            /\ (conn[p].ended = "stream_end" \/ conn[p].lastMsg.type = "Close"))
          => (conn[p].result = "Ok" /\ Tagged(p) = {})

\* C9 as claimed: every message without a bar payload, text that is not
\* JSON included, is skipped: it does not end the connector and logs no
\* error.
C9_Claimed ==
    \A p \in Pairs :
        (conn[p].lastMsg # NoMsg /\ ~HasBarPayload(conn[p].lastMsg))
            => (conn[p].ended # "message_error" /\ Tagged(p) = {})

\* C9 as amended: a message that has no text, or whose text is JSON without
\* an object under "k", is skipped: nothing is queued or logged and the
\* connector goes on reading; a message whose text is not JSON ends the
\* connector with a tagged error.
C9_SkipsJsonWithoutBar ==
    [][\A p \in Pairs :
        /\ (Read(p) /\ ~HasBarPayload(conn'[p].lastMsg)
                /\ (~HasText(conn'[p].lastMsg) \/ IsJson(conn'[p].lastMsg)))
             => /\ conn'[p].pc = "reading"
                /\ conn'[p].result = "none"
                /\ chan' = chan /\ sent' = sent
                /\ errorLog' = errorLog /\ warnLog' = warnLog
        /\ (Read(p) /\ HasText(conn'[p].lastMsg) /\ ~IsJson(conn'[p].lastMsg))
             => /\ conn'[p].pc = "done" /\ conn'[p].result = "Err"
                /\ chan' = chan /\ sent' = sent
                /\ \E e \in errorLog' \ errorLog :
                       e.symbol = p[1] /\ e.interval = p[2]]_vars

\* C9 witness: a connector sent a Bar, then read a JSON message without a
\* "k" object, logged nothing and is still reading.
C9_Witness ==
    \E p \in Pairs :
        /\ conn[p].got = 2
        /\ sent[p].n = 1
        /\ IsJson(conn[p].lastMsg) /\ ~HasBarPayload(conn[p].lastMsg)
        /\ conn[p].pc = "reading"
        /\ Tagged(p) = {}

\* An update has been processed to its end.
UpdateDone == aggPc \in {"recv", "done"} /\ upd.bar # NoBar

\* C10 as claimed: per Bar, one insert, then exactly one rendered line, the
\* one of the updated key and none for any other key, then one mean.
C10_Claimed ==
    UpdateDone =>
        /\ upd.means = 1
        /\ \A k \in DOMAIN upd.lines :
              upd.lines[k] = IF k = Key(upd.bar) THEN 1 ELSE 0

\* C10 as amended: per Bar, one insert, then exactly one rendered line for
\* each key in the cache (the updated key and every other), then one mean.
C10_InsertRenderAllMean ==
    /\ aggPc \in {"render", "mean"} =>
          /\ kline_cache[Key(upd.bar)] = upd.bar
          /\ upd.means = 0
          /\ DOMAIN upd.lines = DOMAIN kline_cache
          /\ \A k \in DOMAIN upd.lines :
                upd.lines[k] = IF k \in upd.todo THEN 0 ELSE 1
          /\ aggPc = "mean" => upd.todo = {}
    /\ UpdateDone =>
          /\ kline_cache[Key(upd.bar)] = upd.bar
          /\ upd.means = 1
          /\ DOMAIN upd.lines = DOMAIN kline_cache
          /\ \A k \in DOMAIN kline_cache : upd.lines[k] = 1

\* C10 witness: an update of one key has been processed while the cache
\* held another key as well.
C10_Witness ==
    /\ UpdateDone
    /\ Cardinality(DOMAIN kline_cache) = 2
    /\ \E k \in DOMAIN kline_cache : k # Key(upd.bar) /\ upd.lines[k] = 1

\* The percent change of a pair's entry, 0 for a pair never observed,
\* written out from the Bar's fields.
Contribution(p) ==
    IF received[p] > 0
    THEN ((kline_cache[p].close - kline_cache[p].open) * 100) \div kline_cache[p].open
    ELSE 0

RECURSIVE SumFirst(_)
SumFirst(n) == IF n = 0 THEN 0 ELSE Contribution(PairAt(n)) + SumFirst(n - 1)

\* C11: the mean emitted after an update is the sum of the percent changes
\* of the keys observed so far (each once, with its latest Bar, the Bar
\* just inserted included) over the number of those keys.
C11_MeanOverCachedKeys ==
    UpdateDone =>
        /\ kline_cache[Key(upd.bar)] = upd.bar
        /\ upd.avg[2] = Cardinality({p \in Pairs : received[p] > 0})
        /\ upd.avg[2] = Cardinality(DOMAIN kline_cache)
        /\ upd.avg[1] = SumFirst(NumTasks)

\* C11 witness: a mean was emitted over one key while the other pair had
\* not been observed, and the key's Bar had replaced an earlier one with
\* another change.
C11_Witness ==
    \E p, q \in Pairs :
        /\ UpdateDone
        /\ Key(upd.bar) = p
        /\ received[p] = 2 /\ received[q] = 0
        /\ sent[p].all[1].close # sent[p].all[2].close
        /\ upd.avg = <<price_change_percent(sent[p].all[2]), 1>>

\* The connector of p has parsed at least one Bar: it sent one, or holds
\* one while it waits for channel space.
Parsed(p) == sent[p].n > 0 \/ conn[p].pc = "sending"

\* The Bars of p parsed but not yet taken by the Aggregator.
Queued(p) == Len(SelectSeq(chan, LAMBDA b : Key(b) = p))

\* C12, as claimed: in every state the keys of the cache are exactly the
\* configured pairs whose connector has parsed at least one Bar.
C12_Claimed == DOMAIN kline_cache = {p \in Pairs : Parsed(p)}

\* C12: the keys of the cache are configured pairs, each has parsed at
\* least one Bar, and they are exactly the pairs of which the Aggregator
\* has taken at least one Bar from the channel; a pair whose every parsed
\* Bar is still queued or waiting for space is not a key yet.
C12_KeysAreReceivedPairs ==
    /\ DOMAIN kline_cache \subseteq Pairs
    /\ DOMAIN kline_cache \subseteq {p \in Pairs : Parsed(p)}
    /\ DOMAIN kline_cache = {p \in Pairs : received[p] > 0}
    /\ DOMAIN kline_cache = {p \in Pairs : sent[p].n > Queued(p)}

\* C12 witness: one pair is a key, the other has parsed a Bar that is
\* still in the channel and is not a key.
C12_Witness ==
    \E p, q \in Pairs :
        /\ p \in DOMAIN kline_cache
        /\ q \notin DOMAIN kline_cache
        /\ Parsed(q) /\ Queued(q) = 1

\* The Bar a message with a valid bar payload parses to.
ParsedBar(p, m) == KlineData_new(p[1], p[2], BarPayload(m)).val

\* A step in which connector p reads a message whose bar payload parses.
ReadsBar(p) ==
    /\ Read(p)
    /\ HasBarPayload(conn'[p].lastMsg)
    /\ ~ParseFails(p, conn'[p].lastMsg)

\* C13: the channel never holds more than Capacity Bars; a send that finds
\* it full leaves the connector suspended with that Bar, which it keeps
\* until the channel has room and then appends; the channel changes only
\* by an append at its end or the removal of its head, so that every Bar
\* parsed is queued, suspended or received; and a suspended send
\* eventually completes.
C13_Backpressure ==
    /\ [](Len(chan) <= Capacity)
    /\ [](\A p \in Pairs :
            /\ sent[p].n = Queued(p) + received[p]
            /\ conn[p].pc = "sending"
                 => (conn[p].pending # NoBar /\ Key(conn[p].pending) = p))
    /\ [][\A p \in Pairs :
            /\ (ReadsBar(p) /\ Len(chan) = Capacity)
                 => /\ conn'[p].pc = "sending"
                    /\ conn'[p].pending = ParsedBar(p, conn'[p].lastMsg)
                    /\ chan' = chan
            /\ (ReadsBar(p) /\ Len(chan) < Capacity)
                 => /\ conn'[p].pc = "reading"
                    /\ chan' = Append(chan, ParsedBar(p, conn'[p].lastMsg))
            /\ conn[p].pc = "sending"
                 => \/ conn'[p] = conn[p]
                    \/ /\ Len(chan) < Capacity
                       /\ chan' = Append(chan, conn[p].pending)
                       /\ conn'[p].pc = "reading"]_vars
    /\ [][chan' # chan
            => \/ chan # <<>> /\ chan' = Tail(chan)
               \/ \E p \in Pairs : \E b \in {conn[p].pending} \cup
                        (IF ReadsBar(p) THEN {ParsedBar(p, conn'[p].lastMsg)} ELSE {}) :
                      chan' = Append(chan, b)]_vars
    /\ \A p \in Pairs :
          (conn[p].pc = "sending") ~> (conn[p].pc = "reading" /\ sent[p].n > 0)

\* C13 witness: the channel is full, a connector is suspended in send with
\* a Bar of its own, and the Aggregator is about to free a slot.
C13_Witness ==
    \E p \in Pairs :
        /\ Len(chan) = Capacity
        /\ conn[p].pc = "sending"
        /\ conn[p].pending # NoBar
        /\ aggPc = "recv"

\* C14: spawn_websocket_tasks starts one task per pair of symbols x
\* intervals, none twice and, once it has returned, none missing; the
\* tasks send into the one channel; and the Aggregator task is started
\* once, after them, and is never started again.
C14_OneTaskPerPair ==
    /\ [](/\ Cardinality(Pairs) = Cardinality(symbols) * Cardinality(intervals)
          /\ NumTasks = Cardinality(Pairs)
          /\ \A p \in Pairs :
                /\ conn[p].spawns <= 1
                /\ conn[p].spawns = 0 <=> conn[p].pc = "unspawned"
          /\ spawnIdx = Cardinality({p \in Pairs : conn[p].spawns = 1})
          /\ mainPc # "spawn" => \A p \in Pairs : conn[p].spawns = 1
          /\ aggPc = "unspawned" <=> mainPc \in {"spawn", "spawn_processor"}
          /\ \A i \in 1..Len(chan) : Key(chan[i]) \in Pairs)
    /\ [][/\ aggPc # "unspawned" => aggPc' # "unspawned"
          /\ \A p \in Pairs : conn'[p].spawns >= conn[p].spawns]_vars

\* C14 witness: all tasks are started, each once, the Aggregator runs, and
\* the channel holds Bars of two different connectors.
C14_Witness ==
    /\ mainPc = "join"
    /\ aggPc = "recv"
    /\ \A p \in Pairs : conn[p].spawns = 1
    /\ Len(chan) = 2
    /\ Key(chan[1]) # Key(chan[2])

\* The Bars of p in the channel, oldest first.
QueuedBars(p) == SelectSeq(chan, LAMBDA b : Key(b) = p)

\* C15: for every connector the Bars still queued are, in order, the ones
\* it parsed after those the Aggregator has taken, the Aggregator takes
\* them one at a time, and the cache entry of the key is the latest Bar
\* taken: it never goes back to a Bar parsed earlier.
C15_PerConnectorFifo ==
    /\ [](\A p \in Pairs :
            /\ Len(sent[p].all) = sent[p].n
            /\ received[p] <= sent[p].n
            /\ QueuedBars(p) = SubSeq(sent[p].all, received[p] + 1, sent[p].n)
            /\ received[p] > 0 => kline_cache[p] = sent[p].all[received[p]])
    /\ [][\A p \in Pairs :
            /\ received'[p] \in {received[p], received[p] + 1}
            /\ received'[p] = received[p] + 1
                 => /\ chan # <<>> /\ Head(chan) = sent[p].all[received[p] + 1]
                    /\ kline_cache'[p] = Head(chan)
            /\ SubSeq(sent'[p].all, 1, sent[p].n) = sent[p].all]_vars

\* C15 witness: a connector parsed two different Bars and another connector
\* parsed one in between; the Aggregator has taken the first, the cache
\* holds it, and the other two wait in the channel in that order.
C15_Witness ==
    \E p, q \in Pairs :
        /\ p # q
        /\ sent[p].n = 2 /\ sent[p].all[1] # sent[p].all[2]
        /\ received[p] = 1 /\ kline_cache[p] = sent[p].all[1]
        /\ chan = <<sent[q].last, sent[p].all[2]>>

\* C16: a Bar is inserted only when the Aggregator is at recv, with the
\* rendering and the mean of the update before completed; while the
\* entries are rendered and the mean is computed the cache does not change;
\* so what each worker saw is what the cache holds, the workers together
\* saw all of it, the triggering Bar included, and the mean is the mean of
\* what they saw.
C16_RenderSeesSnapshot ==
    /\ [][/\ received' # received
               => /\ aggPc = "recv" /\ aggPc' = "render"
                  /\ upd.todo = {}
                  /\ upd.bar # NoBar => upd.means = 1
                  /\ upd'.todo = DOMAIN kline_cache' /\ DOMAIN upd'.seen = {}
          /\ aggPc \in {"render", "mean"}
               => (kline_cache' = kline_cache /\ received' = received)
          /\ kline_cache' # kline_cache => received' # received]_vars
    /\ []((aggPc \in {"render", "mean"} \/ UpdateDone)
            => /\ DOMAIN upd.seen \cup upd.todo = DOMAIN kline_cache
               /\ \A k \in DOMAIN upd.seen : upd.seen[k] = kline_cache[k]
               /\ kline_cache[Key(upd.bar)] = upd.bar)
    /\ []((aggPc = "mean" \/ UpdateDone)
            => /\ DOMAIN upd.seen = DOMAIN kline_cache
               /\ upd.seen[Key(upd.bar)] = upd.bar)
    /\ [](UpdateDone
            => upd.avg = <<SumPercent(upd.seen, DOMAIN upd.seen),
                           Cardinality(DOMAIN upd.seen)>>)

\* C16 witness: the rendering of an update over two entries is half done:
\* one worker has seen the older entry, the triggering Bar is still to be
\* rendered, and the next Bar waits in the channel.
C16_Witness ==
    \E p, q \in Pairs :
        /\ p # q
        /\ aggPc = "render"
        /\ DOMAIN kline_cache = {p, q}
        /\ DOMAIN upd.seen = {p} /\ upd.todo = {q}
        /\ Key(upd.bar) = q
        /\ upd.seen[p] = sent[p].all[1]
        /\ chan # <<>>

\* The error messages that name the i-th field of FieldNames.
ErrorsNaming(i) ==
    CASE i = 1 -> {"Invalid timestamp"}
      [] i = 2 -> {"Invalid o price", "Failed to parse o price"}
      [] i = 3 -> {"Invalid h price", "Failed to parse h price"}
      [] i = 4 -> {"Invalid l price", "Failed to parse l price"}
      [] i = 5 -> {"Invalid c price", "Failed to parse c price"}
      [] i = 6 -> {"Invalid volume", "Failed to parse volume"}

\* The positions of the invalid fields of the call.
InvalidFields == {i \in DOMAIN parser.fields : ~parser.fields[i].valid}

\* C17: when a field of the payload is invalid, KlineData::new returns an
\* error that names the first invalid field in the order t, o, h, l, c, v,
\* and no Bar; when all six are valid it returns the Bar with the values
\* of the fields and the symbol and interval it was given.
C17_BarParser ==
    parser.pc = "returned" =>
        IF InvalidFields = {}
        THEN /\ parser.result.ok
             /\ parser.result.val =
                   [symbol |-> parser.pair[1], interval |-> parser.pair[2],
                    interval_start |-> parser.fields[1].value,
                    open |-> parser.fields[2].value,
                    high |-> parser.fields[3].value,
                    low |-> parser.fields[4].value,
                    close |-> parser.fields[5].value,
                    volume |-> parser.fields[6].value]
        ELSE LET first == CHOOSE i \in InvalidFields :
                              \A j \in InvalidFields : i <= j
             IN  /\ ~parser.result.ok
                 /\ parser.result = Err(parser.result.err)
                 /\ parser.result.err \in ErrorsNaming(first)

\* C17 witness: a payload whose h is no number and whose c is missing got
\* the error of h.
C17_Witness ==
    /\ parser.pc = "returned"
    /\ InvalidFields = {3, 5}
    /\ parser.fields[3].json = JStr("abc")
    /\ ~parser.fields[5].present
    /\ parser.result = Err("Failed to parse h price")

\* C18: whenever the Aggregator renders or computes the mean the cache has
\* at least one entry, every mean emitted has a divisor of at least 1, and
\* the Aggregator ends in no other way than by the channel being closed.
C18_MeanOverNonEmptyCache ==
    /\ []((aggPc \in {"render", "mean"})
            => (Cardinality(DOMAIN kline_cache) >= 1
                    /\ Key(upd.bar) \in DOMAIN kline_cache))
    /\ [](UpdateDone => upd.avg[2] >= 1)
    /\ [][upd'.means = upd.means + 1
            => /\ aggPc = "mean"
               /\ Cardinality(DOMAIN kline_cache) >= 1
               /\ upd'.avg[2] = Cardinality(DOMAIN kline_cache)]_vars
    /\ [][(aggPc # "done" /\ aggPc' = "done")
            => (aggPc = "recv" /\ chan = <<>> /\ Senders = 0)]_vars

\* C18 witness: the mean of the very first update was emitted, over the
\* one Bar just inserted.
C18_Witness ==
    \E p \in Pairs :
        /\ UpdateDone
        /\ upd.means = 1
        /\ received[p] = 1 /\ \A q \in Pairs \ {p} : received[q] = 0
        /\ upd.avg[2] = 1

\* C19: no connector ends by a failed send: whenever a task holds its
\* Sender, and so whenever it sends, the receiver is alive; the Aggregator
\* drops the receiver only on an empty channel with every connector ended
\* and every handle dropped, and no Bar is queued afterwards.
C19_SendNeverFails ==
    /\ [](\A p \in Pairs :
            /\ conn[p].ended # "send_error"
            /\ conn[p].tx => rxAlive
            /\ conn[p].pc \in {"connecting", "reading", "sending"} => rxAlive)
    /\ [](~rxAlive
            => /\ aggPc = "done" /\ chan = <<>>
               /\ ~fnTx /\ ~symTx
               /\ \A p \in Pairs : conn[p].pc = "done" /\ ~conn[p].tx)
    /\ [][/\ sent' # sent => (rxAlive /\ rxAlive')
          /\ ~rxAlive => (rxAlive' = rxAlive /\ chan' = chan)]_vars

\* C19 witness: the Aggregator has dropped the receiver after every
\* connector had sent a Bar and ended, none of them by a failed send.
C19_Witness ==
    /\ ~rxAlive
    /\ \A p \in Pairs :
          sent[p].n >= 1 /\ conn[p].pc = "done" /\ conn[p].ended # "send_error"
    /\ \E p \in Pairs : sent[p].n = 2

\* The connector of p has ended and every Bar it sent has been received.
Settled(p) == conn[p].pc = "done" /\ sent[p].n > 0 /\ received[p] = sent[p].n

\* C20, as claimed: from the moment a connector that parsed a Bar has
\* terminated, the cache holds its last Bar.
C20_Claimed ==
    \A p \in Pairs :
        (conn[p].pc = "done" /\ sent[p].n > 0)
            => (p \in DOMAIN kline_cache /\ kline_cache[p] = sent[p].last)

\* C20: no step removes a key, and an entry changes only when a Bar of its
\* key is received; once a connector has ended and its last Bar has been
\* received, the entry is that Bar and never changes again, and every
\* later update of another key renders it once and counts it in the mean.
C20_CacheOnlyGrows ==
    /\ [][\A k \in DOMAIN kline_cache :
            /\ k \in DOMAIN kline_cache'
            /\ kline_cache'[k] # kline_cache[k] => received'[k] = received[k] + 1]_vars
    /\ [](\A p \in Pairs :
            Settled(p) => (p \in DOMAIN kline_cache /\ kline_cache[p] = sent[p].last))
    /\ [][\A p \in Pairs :
            Settled(p) => (kline_cache'[p] = kline_cache[p] /\ received'[p] = received[p])]_vars
    /\ [](\A p \in Pairs :
            (UpdateDone /\ Settled(p) /\ p \in upd.gone)
               => /\ upd.lines[p] = 1
                  /\ upd.seen[p] = sent[p].last
                  /\ upd.avg[2] = Cardinality(DOMAIN kline_cache)
                  /\ upd.avg[1] = price_change_percent(sent[p].last)
                                    + SumPercent(kline_cache, DOMAIN kline_cache \ {p}))

\* C20 witness: a connector ended after its Bar was received; a later
\* update of the other pair rendered that Bar and counted it in the mean.
C20_Witness ==
    \E p, q \in Pairs :
        /\ p # q
        /\ UpdateDone
        /\ Key(upd.bar) = q
        /\ Settled(p) /\ p \in upd.gone
        /\ upd.lines[p] = 1
        /\ price_change_percent(kline_cache[p]) # 0
        /\ upd.avg = <<price_change_percent(kline_cache[p])
                          + price_change_percent(upd.bar), 2>>

====
